---- MODULE Spec2Model ----
(***************************************************************************)
(* State-machine model of EcommerceDataGenerator                           *)
(* (01-ecommerce-analytics/src/data_generator.py).                         *)
(*                                                                         *)
(* Units.  Money read from the product table (base_price, cost) is kept in *)
(* thousandths of a currency unit; the product base_price * multiplier is  *)
(* kept in ten-thousandths (the multipliers 1.1, 1.0, 0.9 are 11, 10, 9    *)
(* tenths); a value that went through round(x, 2) is kept in hundredths.   *)
(* Time is kept in whole days.  round(x, 2) is round-half-to-even on the   *)
(* decimal value.                                                          *)
(*                                                                         *)
(* The numpy global random stream is a fixed but unknown function of the   *)
(* seed: np.random.seed(42) puts the stream at position 0 of the sequence  *)
(* Stream(key, 0), Stream(key, 1), ... where key is chosen once, in Init,  *)
(* and never changes.  Every scalar draw reads one position and advances   *)
(* by one; a vector draw of size n reads n consecutive positions.          *)
(***************************************************************************)
EXTENDS Integers, Sequences, FiniteSets, TLC

\* ------------------------------------------------------------------ bounds
\* Largest count a caller passes to the constructor (the smallest is -1).
MaxCount == 2
\* Number of candidate streams for seed 42.
NumStreams == 2
\* Largest wall-clock reading, in days since the process started.
MaxClock == 1
\* Largest number of generator constructions in one process.
MaxInits == 1
\* The same two bounds where a process constructs several generators
\* (SpecInits, SpecRuns).
MaxRunCount == 1
MaxRuns == 2
\* A call starts only while the stream position is at most this.
MaxPos == 3

\* ------------------------------------------------------- program constants
\* np.random.seed(42), random.seed(42)
SEED == 42
\* min(days_back, 365)
MaxDaysBack == 365
\* resolution of one uniform variate of the stream: u = raw / RawMod
RawMod == 1000

segments == <<"Premium", "Standard", "Basic">>
segments_p == <<2, 5, 3>>
regions == <<"North", "South", "East", "West", "Central">>
age_groups == <<"18-25", "26-35", "36-45", "46-55", "55+">>
age_groups_p == <<15, 25, 25, 20, 15>>
categories == <<"Electronics", "Clothing", "Books", "Home", "Sports", "Beauty">>
quantities == <<1, 2, 3, 4, 5>>
quantities_p == <<50, 25, 15, 7, 3>>
channels == <<"Online", "Store">>
channels_p == <<7, 3>>

\* line 51-53: {'Premium': 3.0, 'Standard': 2.0, 'Basic': 1.0}
segment_weight(seg) ==
    CASE seg = "Premium" -> 3 [] seg = "Standard" -> 2 [] seg = "Basic" -> 1

\* line 66: {'Premium': 1.1, 'Standard': 1.0, 'Basic': 0.9}, in tenths
price_multiplier(seg) ==
    CASE seg = "Premium" -> 11 [] seg = "Standard" -> 10 [] seg = "Basic" -> 9

\* ------------------------------------------------------------ random stream
\* The raw variate at position pos of stream key, in 0 .. RawMod-1.
Stream(key, pos) ==
    (key * 389 + (pos + 1) * (pos + key) * 173 + pos * 61) % RawMod

RECURSIVE SumSeq(_)
SumSeq(s) == IF s = <<>> THEN 0 ELSE Head(s) + SumSeq(Tail(s))

RECURSIVE CumSum(_, _)
CumSum(w, k) == IF k = 0 THEN 0 ELSE w[k] + CumSum(w, k - 1)

\* np.random.choice(a, p=p): the first index whose cumulative probability
\* exceeds the uniform variate u = raw / RawMod.
choice_p(a, p, raw) ==
    LET total == SumSeq(p)
        idx == CHOOSE k \in 1..Len(a) :
                 /\ CumSum(p, k) * RawMod > raw * total
                 /\ \A j \in 1..(k - 1) : CumSum(p, j) * RawMod <= raw * total
    IN a[idx]

\* np.random.choice(a): a uniformly drawn index.
choice(a, raw) == a[((raw * Len(a)) \div RawMod) + 1]

\* np.random.uniform(low, high) with low, high given in thousandths.
uniform(low, high, raw) == low + ((high - low) * raw) \div RawMod

\* np.random.exponential(30), in days: the inverse-CDF of the variate mapped
\* onto a grid of representative offsets on both sides of the 365-day clamp.
DaysGrid == <<0, 1, 29, 364, 365, 366, 900>>
exponential(raw) == DaysGrid[(raw % Len(DaysGrid)) + 1]

\* ---------------------------------------------------------------- rounding
\* x / unit rounded to the nearest integer, ties to even (x >= 0).
RoundHalfEven(x, unit) ==
    LET q == x \div unit
        r == x % unit
    IN IF 2 * r < unit THEN q
       ELSE IF 2 * r > unit THEN q + 1
       ELSE IF q % 2 = 0 THEN q ELSE q + 1

\* round(x, 2) of a value given in ten-thousandths; the result in hundredths.
round2(x) == RoundHalfEven(x, 100)


Min(a, b) == IF a <= b THEN a ELSE b

\* ---------------------------------------------------------------- tables
\* pd.date_range(start='2022-01-01', end='2024-12-31', periods=n)[k-1], in
\* days since the start of the window (the window is 1095 days long).
RegistrationWindow == 1095
registration_date(n, k) ==
    IF n = 1 THEN 0 ELSE ((k - 1) * RegistrationWindow) \div (n - 1)

\* (a variant whose ids start at 0: range(self.n_customers))
customers_table_zero_based(key, pos, n) ==
    [k \in 1..n |->
        [customer_id |-> k - 1,
         customer_segment |-> choice_p(segments, segments_p, Stream(key, pos + k - 1)),
         region |-> choice(regions, Stream(key, pos + n + k - 1)),
         registration_date |-> registration_date(n, k),
         age_group |-> choice_p(age_groups, age_groups_p,
                                Stream(key, pos + 2 * n + k - 1))]]

\* generate_customers, lines 19-31: the table for n >= 0 rows with the stream
\* at position pos; three vector draws of n variates each, in column order.
customers_table(key, pos, n) ==
    [k \in 1..n |->
        [customer_id |-> k,
         customer_segment |-> choice_p(segments, segments_p, Stream(key, pos + k - 1)),
         region |-> choice(regions, Stream(key, pos + n + k - 1)),
         registration_date |-> registration_date(n, k),
         age_group |-> choice_p(age_groups, age_groups_p,
                                Stream(key, pos + 2 * n + k - 1))]]

\* (base_price - cost) / base_price, line 43, in thousandths (floor).
profit_margin(base_price, cost) == ((base_price - cost) * 1000) \div base_price

\* generate_products, lines 37-44.
products_table(key, pos, m) ==
    [k \in 1..m |->
        LET base_price == uniform(10000, 500000, Stream(key, pos + m + k - 1))
            cost == uniform(5000, 300000, Stream(key, pos + 2 * m + k - 1))
        IN [product_id |-> k,
            category |-> choice(categories, Stream(key, pos + k - 1)),
            base_price |-> base_price,
            cost |-> cost,
            profit_margin |-> profit_margin(base_price, cost)]]

\* A vector draw of a negative size raises ValueError before it reads the
\* stream (lines 21 and 39).
size_raises(n) == n < 0

\* lines 51-54: the per-customer weights (choice_p divides by their sum).
customer_weights_of(cust) == [k \in 1..Len(cust) |-> segment_weight(cust[k].customer_segment)]

\* customers[customers['customer_id'] == id][col].iloc[0]
first_row(table, idcol, id) ==
    table[CHOOSE k \in 1..Len(table) :
            /\ table[k][idcol] = id
            /\ \A j \in 1..(k - 1) : table[j][idcol] # id]

column(table, col) == [k \in 1..Len(table) |-> table[k][col]]

\* (a variant that forgets the segment adjustment)
unit_price_flat(base_price, customer_segment) == base_price * 10

\* line 67: base_price * price_multiplier[customer_segment], ten-thousandths
unit_price(base_price, customer_segment) ==
    base_price * price_multiplier(customer_segment)

\* line 82: round(quantity * unit_price, 2) on the unrounded unit_price
total_amount(quantity, unit_price_) == round2(quantity * unit_price_)

\* (a variant without the clamp)
recency_offset_unclamped(days_back) == days_back

\* line 74: timedelta(days=min(days_back, 365))
recency_offset(days_back) == Min(days_back, MaxDaysBack)

\* line 74: datetime.now() - timedelta(...)
transaction_date(now, days_back) == now - recency_offset(days_back)

\* (a variant that numbers from 0)
transaction_id_zero_based(i_) == i_

\* line 77
transaction_id(i_) == i_ + 1

\* (a variant that draws the quantity before the product)
DrawOrder_quantity_first == <<"customer", "quantity", "product", "recency", "channel">>

\* lines 58, 62, 70, 73, 84: the draws of one iteration, in program order.
DrawOrder == <<"customer", "product", "quantity", "recency", "channel">>

DrawIndex(kind) == CHOOSE k \in 1..Len(DrawOrder) : DrawOrder[k] = kind

\* the stream position the draw `kind` of an iteration starting at p0 reads
DrawPos(kind, p0) == p0 + DrawIndex(kind) - 1

\* ------------------------------------------------------------------ state
VARIABLES
    key,            \* which stream np.random.seed(42) selects (never changes)
    gen,            \* the generator object's fields (meaningful once nInit > 0)
    rng,            \* the numpy global stream: [seeds, pos]
    nInit,          \* number of __init__ executions so far
    clock,          \* datetime.now(), in days
    call,           \* the outermost call in progress, or the last one made
    pc,             \* position inside the call
    outcome,        \* what the last call handed to its caller
    bound,          \* which of the three table names are bound in scope
    customers,      \* the customer table in scope
    products,       \* the product table in scope
    transactions,   \* generate_transactions' list, then the returned table
    customer_weights, \* generate_transactions' local, lines 51-54
    i,              \* the loop variable of line 56
    draws,          \* the draws of the current generate_transactions call
    runs            \* the tables of completed __main__ runs (SpecRuns only)

vars == <<key, gen, rng, nInit, clock, call, pc, outcome, bound, customers, products,
          transactions, customer_weights, i, draws, runs>>

Counts == (-1)..MaxCount

Init ==
    /\ key \in 1..NumStreams
    /\ gen = [n_customers |-> 0, n_products |-> 0, n_transactions |-> 0]
    /\ rng = [seed |-> 0, seeds |-> 0, pos |-> 0]
    /\ nInit = 0
    /\ clock = 0
    /\ call = "none"
    /\ pc = "idle"
    /\ outcome = "none"
    /\ bound = {}
    /\ customers = <<>>
    /\ products = <<>>
    /\ transactions = <<>>
    /\ customer_weights = <<>>
    /\ i = 0
    /\ draws = <<>>
    /\ runs = <<>>

\* (a variant of __init__ that leaves the stream alone)
np_random_seed_skipped(r) == r

\* np.random.seed(SEED), line 11: the stream restarts at position 0.
np_random_seed(r) == [seed |-> SEED, seeds |-> r.seeds + 1, pos |-> 0]

\* n variates were drawn.
advance(r, n) == [r EXCEPT !.pos = @ + n]

\* The wall clock moves on.  Line 74 is the only place that reads it, so time
\* that passes anywhere else is taken to pass when the loop is reached.
Tick ==
    /\ pc = "loop"
    /\ clock < MaxClock
    /\ clock' = clock + 1
    /\ UNCHANGED <<key, gen, rng, nInit, call, pc, outcome, bound, customers,
                   products, transactions, customer_weights, i, draws, runs>>

\* __init__, lines 7-12.
EcommerceDataGenerator(n_customers, n_products, n_transactions) ==
    /\ pc = "idle"
    /\ gen' = [n_customers |-> n_customers, n_products |-> n_products,
               n_transactions |-> n_transactions]
    /\ rng' = np_random_seed(rng)
    /\ nInit' = nInit + 1
    /\ call' = "init"
    /\ outcome' = "none"
    /\ UNCHANGED <<key, clock, pc, bound, customers, products, transactions,
                   customer_weights, i, draws, runs>>

CanCall == pc = "idle" /\ nInit > 0 /\ rng.pos <= MaxPos

\* generator.generate_customers() called on its own, lines 14-31.
generate_customers ==
    /\ CanCall
    /\ call' = "customers"
    /\ IF size_raises(gen.n_customers)
       THEN /\ outcome' = "raised"
            /\ UNCHANGED <<bound, customers, rng>>
       ELSE /\ customers' = customers_table(key, rng.pos, gen.n_customers)
            /\ bound' = bound \cup {"customers"}
            /\ rng' = advance(rng, 3 * gen.n_customers)
            /\ outcome' = "returned"
    /\ UNCHANGED <<key, gen, nInit, clock, pc, products, transactions,
                   customer_weights, i, draws, runs>>

\* generator.generate_products() called on its own, lines 33-44.
generate_products ==
    /\ CanCall
    /\ call' = "products"
    /\ IF size_raises(gen.n_products)
       THEN /\ outcome' = "raised"
            /\ UNCHANGED <<bound, products, rng>>
       ELSE /\ products' = products_table(key, rng.pos, gen.n_products)
            /\ bound' = bound \cup {"products"}
            /\ rng' = advance(rng, 3 * gen.n_products)
            /\ outcome' = "returned"
    /\ UNCHANGED <<key, gen, nInit, clock, pc, customers, transactions,
                   customer_weights, i, draws, runs>>

\* generator.generate_transactions(customers, products) called on its own
\* with the tables the caller holds: the call is made, line 46.
generate_transactions ==
    /\ CanCall
    /\ {"customers", "products"} \subseteq bound
    /\ call' = "transactions"
    /\ pc' = "txn_entry"
    /\ outcome' = "none"
    /\ UNCHANGED <<key, gen, rng, nInit, clock, bound, customers, products,
                   transactions, customer_weights, i, draws, runs>>

\* generator.generate_all_data() is called, line 89: its locals are unbound.
\* Called right after the construction it is the run of lines 111-112.
generate_all_data ==
    /\ CanCall
    /\ call' = IF call = "init" THEN "main" ELSE "all"
    /\ pc' = "all_customers"
    /\ outcome' = "none"
    /\ bound' = {}
    /\ customers' = <<>>
    /\ products' = <<>>
    /\ transactions' = <<>>
    /\ UNCHANGED <<key, gen, rng, nInit, clock, customer_weights, i, draws, runs>>

\* line 91: customers = self.generate_customers()
all_customers ==
    /\ pc = "all_customers"
    /\ IF size_raises(gen.n_customers)
       THEN /\ pc' = "unwind"
            /\ UNCHANGED <<bound, customers, rng>>
       ELSE /\ customers' = customers_table(key, rng.pos, gen.n_customers)
            /\ bound' = bound \cup {"customers"}
            /\ rng' = advance(rng, 3 * gen.n_customers)
            /\ pc' = "all_products"
    /\ UNCHANGED <<key, gen, nInit, clock, call, outcome, products, transactions,
                   customer_weights, i, draws, runs>>

\* line 92: products = self.generate_products(); line 93 makes the call
all_products ==
    /\ pc = "all_products"
    /\ IF size_raises(gen.n_products)
       THEN /\ pc' = "unwind"
            /\ UNCHANGED <<bound, products, rng>>
       ELSE /\ products' = products_table(key, rng.pos, gen.n_products)
            /\ bound' = bound \cup {"products"}
            /\ rng' = advance(rng, 3 * gen.n_products)
            /\ pc' = "txn_entry"
    /\ UNCHANGED <<key, gen, nInit, clock, call, outcome, customers, transactions,
                   customer_weights, i, draws, runs>>

\* (a variant that keeps the weights in a new column of the customer table)
txn_entry_storing_weights ==
    /\ pc = "txn_entry"
    /\ transactions' = <<>>
    /\ bound' = bound \cup {"transactions"}
    /\ customer_weights' = customer_weights_of(customers)
    /\ customers' = [k \in 1..Len(customers) |->
                        [customer_id |-> customers[k].customer_id,
                         customer_segment |-> customers[k].customer_segment,
                         region |-> customers[k].region,
                         registration_date |-> customers[k].registration_date,
                         age_group |-> customers[k].age_group,
                         weight |-> segment_weight(customers[k].customer_segment)]]
    /\ i' = 0
    /\ draws' = <<>>
    /\ pc' = "loop"
    /\ UNCHANGED <<key, gen, rng, nInit, clock, call, outcome, products, runs>>

\* lines 48-56: the list, the weights, the loop variable.
txn_entry ==
    /\ pc = "txn_entry"
    /\ transactions' = <<>>
    /\ bound' = bound \cup {"transactions"}
    /\ customer_weights' = customer_weights_of(customers)
    /\ i' = 0
    /\ draws' = <<>>
    /\ pc' = "loop"
    /\ UNCHANGED <<key, gen, rng, nInit, clock, call, outcome, customers, products,
                   runs>>

\* The draws an iteration starting at stream position p0 makes before the
\* draw at index stop (all of them when stop = Len(DrawOrder) + 1).
iteration_draws(it, p0, stop) ==
    [k \in 1..(stop - 1) |-> [iter |-> it, kind |-> DrawOrder[k], pos |-> p0 + k - 1]]

\* np.random.choice raises ValueError on an empty population before it reads
\* the stream (lines 58 and 62): the index of the first draw that raises, or
\* Len(DrawOrder) + 1 when none does.
first_raising_draw(cust, prod) ==
    LET bad == (IF Len(cust) = 0 THEN {DrawIndex("customer")} ELSE {}) \cup
               (IF Len(prod) = 0 THEN {DrawIndex("product")} ELSE {})
    IN IF bad = {} THEN Len(DrawOrder) + 1
       ELSE CHOOSE k \in bad : \A j \in bad : k <= j

\* lines 57-85: the record of iteration it, the stream at position p0.
transaction_record(k_, cust, prod, weights, it, p0, now) ==
    LET customer_id == choice_p(column(cust, "customer_id"), weights,
                                Stream(k_, DrawPos("customer", p0)))
        customer_segment == first_row(cust, "customer_id", customer_id).customer_segment
        product_id == choice(column(prod, "product_id"),
                             Stream(k_, DrawPos("product", p0)))
        base_price == first_row(prod, "product_id", product_id).base_price
        unit_price_ == unit_price(base_price, customer_segment)
        quantity == choice_p(quantities, quantities_p,
                             Stream(k_, DrawPos("quantity", p0)))
        days_back == exponential(Stream(k_, DrawPos("recency", p0)))
    IN [transaction_id |-> transaction_id(it),
        customer_id |-> customer_id,
        product_id |-> product_id,
        quantity |-> quantity,
        unit_price |-> round2(unit_price_),
        total_amount |-> total_amount(quantity, unit_price_),
        transaction_date |-> transaction_date(now, days_back),
        channel |-> choice_p(channels, channels_p,
                             Stream(k_, DrawPos("channel", p0)))]

\* One pass through the loop body, lines 56-85.
loop_iteration ==
    /\ pc = "loop"
    /\ i < gen.n_transactions
    /\ LET stop == first_raising_draw(customers, products)
       IN /\ draws' = draws \o iteration_draws(i, rng.pos, stop)
          /\ rng' = advance(rng, stop - 1)
          /\ IF stop <= Len(DrawOrder)
             THEN /\ pc' = "unwind"
                  /\ UNCHANGED <<transactions, i>>
             ELSE /\ transactions' = Append(transactions,
                        transaction_record(key, customers, products,
                                           customer_weights, i, rng.pos, clock))
                  /\ i' = i + 1
                  /\ pc' = "loop"
    /\ UNCHANGED <<key, gen, nInit, clock, call, outcome, bound, customers,
                   products, customer_weights, runs>>

\* The tables a completed generate_all_data handed back, with its inputs.
run_record ==
    [n_customers |-> gen.n_customers, n_products |-> gen.n_products,
     n_transactions |-> gen.n_transactions, seeds |-> rng.seeds,
     customers |-> customers, products |-> products,
     transactions |-> transactions]

\* line 87 (and line 95 inside generate_all_data): the loop is over, the
\* tables go to the caller and generate_transactions' other locals are
\* dropped.  keep: the caller keeps the result of the run.
loop_return(keep) ==
    /\ pc = "loop"
    /\ i >= gen.n_transactions
    /\ pc' = "idle"
    /\ outcome' = "returned"
    /\ runs' = IF keep /\ call = "main" THEN Append(runs, run_record) ELSE runs
    /\ customer_weights' = <<>>
    /\ i' = 0
    /\ draws' = <<>>
    /\ UNCHANGED <<key, gen, rng, nInit, clock, call, bound, customers, products,
                   transactions>>

\* An exception leaves the call: generate_transactions' locals are dropped,
\* and so are generate_all_data's when the call was made through it.
propagate ==
    /\ pc = "unwind"
    /\ pc' = "idle"
    /\ outcome' = "raised"
    /\ transactions' = <<>>
    /\ IF call \in {"all", "main"}
       THEN /\ bound' = {}
            /\ customers' = <<>>
            /\ products' = <<>>
       ELSE /\ bound' = bound \ {"transactions"}
            /\ UNCHANGED <<customers, products>>
    /\ customer_weights' = <<>>
    /\ i' = 0
    /\ draws' = <<>>
    /\ UNCHANGED <<key, gen, rng, nInit, clock, call, runs>>

\* The caller builds the two tables by hand instead, before it makes any call
\* on the generator: one customer of each segment and one product of base
\* price 100.00.
scenario_customers ==
    [k \in 1..3 |->
        [customer_id |-> k, customer_segment |-> segments[k], region |-> regions[k],
         registration_date |-> registration_date(3, k), age_group |-> age_groups[k]]]

scenario_products ==
    <<[product_id |-> 1, category |-> categories[1], base_price |-> 100000,
       cost |-> 60000, profit_margin |-> profit_margin(100000, 60000)]>>

scenario_tables ==
    /\ pc = "idle"
    /\ call = "init"
    /\ call' = "scenario"
    /\ outcome' = "none"
    /\ customers' = scenario_customers
    /\ products' = scenario_products
    /\ bound' = bound \cup {"customers", "products"}
    /\ UNCHANGED <<key, gen, rng, nInit, clock, pc, transactions, customer_weights,
                   i, draws, runs>>

Next ==
    \/ Tick
    \/ /\ nInit < MaxInits
       /\ \E n \in Counts, m \in Counts, t \in Counts : EcommerceDataGenerator(n, m, t)
    \/ generate_customers
    \/ generate_products
    \/ scenario_tables
    \/ generate_transactions
    \/ generate_all_data
    \/ all_customers
    \/ all_products
    \/ txn_entry
    \/ loop_iteration
    \/ loop_return(FALSE)
    \/ propagate

Spec == Init /\ [][Next]_vars

RunCounts == 0..MaxRunCount

\* A process that constructs several generators, one after the other, with
\* any calls in between.
NextInits ==
    \/ Tick
    \/ /\ nInit < MaxRuns
       /\ \E n \in RunCounts, m \in RunCounts, t \in RunCounts :
             EcommerceDataGenerator(n, m, t)
    \/ generate_customers
    \/ generate_products
    \/ generate_transactions
    \/ generate_all_data
    \/ all_customers
    \/ all_products
    \/ txn_entry
    \/ loop_iteration
    \/ loop_return(FALSE)
    \/ propagate

SpecInits == Init /\ [][NextInits]_vars

\* Lines 110-112 run several times over, the caller keeping what each run
\* returned, so that two runs can be compared.
NextRuns ==
    \/ Tick
    \/ /\ nInit < MaxRuns
       /\ \E n \in RunCounts, m \in RunCounts, t \in RunCounts :
             EcommerceDataGenerator(n, m, t)
    \/ call = "init" /\ generate_all_data
    \/ all_customers
    \/ all_products
    \/ txn_entry
    \/ loop_iteration
    \/ loop_return(TRUE)
    \/ propagate

SpecRuns == Init /\ [][NextRuns]_vars

\* ================================================================== claims
Rows(table) == {table[k] : k \in 1..Len(table)}

TxnCalls == {"transactions", "all", "main"}
AllCalls == {"all", "main"}

\* generate_transactions has just handed its table to the caller.
TxnReturned == pc = "idle" /\ call \in TxnCalls /\ outcome = "returned"

\* The rows of a table whose id column holds id.
Matching(table, idcol, id) == {k \in 1..Len(table) : table[k][idcol] = id}

\* ------------------------------------------------------------------- C1
\* C1 (as claimed): every record's total_amount equals round(quantity *
\* unit_price, 2) computed from the record's own stored, already rounded
\* unit_price.  The code rounds quantity * (unrounded unit price) instead.
C1_TotalFromStoredUnitPrice ==
    pc = "loop" =>
        \A r \in Rows(transactions) :
            r.total_amount = round2(r.quantity * (r.unit_price * 100))

\* ------------------------------------------------------------------- C2
\* the multipliers as the claim states them, in hundredths
C2_Multiplier(seg) ==
    CASE seg = "Premium" -> 110 [] seg = "Standard" -> 100 [] seg = "Basic" -> 90

\* C2: every record's unit_price equals round(P * multiplier[S], 2), P the
\* base_price of the product the record references and S the segment of the
\* customer it references; with a product of base price 100.00 the unit
\* price is 110.00, 100.00 or 90.00.
C2_UnitPriceFromSegment ==
    pc = "loop" =>
        \A r \in Rows(transactions) :
            \A c \in Matching(customers, "customer_id", r.customer_id) :
                \A q \in Matching(products, "product_id", r.product_id) :
                    LET P == products[q].base_price
                        S == customers[c].customer_segment
                    IN /\ r.unit_price = RoundHalfEven(P * C2_Multiplier(S), 1000)
                       /\ P = 100000 => r.unit_price \in {11000, 10000, 9000}

\* A Basic and a Premium customer bought, and one price needed rounding.
C2_Witness ==
    /\ pc = "loop"
    /\ \E r \in Rows(transactions) :
          /\ customers[r.customer_id].customer_segment = "Basic"
          /\ (products[r.product_id].base_price * 9) % 100 # 0
    /\ \E r \in Rows(transactions) :
          customers[r.customer_id].customer_segment = "Premium"

\* ------------------------------------------------------------------- C3
\* C3 (as claimed): two runs of lines 111-112 with the same seed and the same
\* three counts hand back identical customer, product and transaction
\* tables, transaction_date included.
C3_RunsIdentical ==
    \A a \in 1..Len(runs), b \in 1..Len(runs) :
        (/\ runs[a].n_customers = runs[b].n_customers
         /\ runs[a].n_products = runs[b].n_products
         /\ runs[a].n_transactions = runs[b].n_transactions)
        => /\ runs[a].customers = runs[b].customers
           /\ runs[a].products = runs[b].products
           /\ runs[a].transactions = runs[b].transactions

\* ------------------------------------------------------------------- C4
\* C4 (as claimed): a generation run hands tables back only when the
\* customer table and the product table are non-empty and the three counts
\* are positive; otherwise it ends in an error.
C4_FailFast ==
    /\ (pc = "idle" /\ call \in AllCalls /\ outcome = "returned") =>
          /\ gen.n_customers > 0
          /\ gen.n_products > 0
          /\ gen.n_transactions > 0
    /\ TxnReturned =>
          /\ Len(customers) > 0
          /\ Len(products) > 0
          /\ gen.n_transactions > 0

\* ------------------------------------------------------------------- C5
\* C5: while the loop runs the k-th record has transaction_id k, and with
\* non-empty tables and T >= 1 generate_transactions returns exactly T
\* records, whose ids are 1..T in ascending order.
C5_SequentialIds ==
    /\ (pc = "loop" \/ TxnReturned) =>
          \A k \in 1..Len(transactions) : transactions[k].transaction_id = k
    /\ pc = "loop" => Len(transactions) = i
    /\ (TxnReturned /\ Len(customers) > 0 /\ Len(products) > 0
          /\ gen.n_transactions >= 1) =>
          Len(transactions) = gen.n_transactions

C5_Witness ==
    /\ TxnReturned
    /\ gen.n_transactions = 2
    /\ Len(transactions) = 2

\* ------------------------------------------------------------------- C6
\* C6: the customer ids are exactly 1..N, each once, the product ids exactly
\* 1..M, each once, and every transaction record references exactly one row
\* of each table.
C6_ReferencesResolve ==
    /\ "customers" \in bound =>
          /\ \A k \in 1..Len(customers) :
                Matching(customers, "customer_id", k) = {k}
          /\ \A c \in Rows(customers) : c.customer_id \in 1..Len(customers)
    /\ "products" \in bound =>
          /\ \A k \in 1..Len(products) :
                Matching(products, "product_id", k) = {k}
          /\ \A q \in Rows(products) : q.product_id \in 1..Len(products)
    /\ (call \in AllCalls /\ pc \in {"all_products", "txn_entry", "loop"}) =>
          Len(customers) = gen.n_customers
    /\ (call \in AllCalls /\ pc \in {"txn_entry", "loop"}) =>
          Len(products) = gen.n_products
    /\ pc = "loop" =>
          \A r \in Rows(transactions) :
              /\ Cardinality(Matching(customers, "customer_id", r.customer_id)) = 1
              /\ Cardinality(Matching(products, "product_id", r.product_id)) = 1

\* Two records reference different customers of a two-row table.
C6_Witness ==
    /\ pc = "loop"
    /\ Len(customers) >= 2
    /\ Len(products) >= 2
    /\ \E r1 \in Rows(transactions), r2 \in Rows(transactions) :
          r1.customer_id # r2.customer_id

\* ------------------------------------------------------------------- C7
\* the record an iteration has just appended
Appended == pc = "loop" /\ Len(transactions') = Len(transactions) + 1

\* C7: the record an iteration appends has 1 <= quantity <= 5, and its
\* transaction_date is at most the clock reading of that iteration and at
\* most 365 days before it.
C7_QuantityAndRecency ==
    [][Appended =>
         LET r == transactions'[Len(transactions')]
         IN /\ 1 <= r.quantity /\ r.quantity <= 5
            /\ r.transaction_date <= clock
            /\ clock - r.transaction_date <= 365]_vars

\* A recency draw above 365 days was clamped, at a clock reading after 0.
C7_Witness ==
    /\ pc = "loop"
    /\ clock > 0
    /\ \E j \in 1..Len(draws) :
          /\ draws[j].kind = "recency"
          /\ exponential(Stream(key, draws[j].pos)) > 365
          /\ draws[j].iter < Len(transactions)
          /\ transactions[draws[j].iter + 1].transaction_date = clock - 365

\* ------------------------------------------------------------------- C8
C8_Order == <<"customer", "product", "quantity", "recency", "channel">>

\* C8: the draws of a generate_transactions call are, in stream order,
\* customer, product, quantity, recency, channel of iteration 0, then the
\* same five of iteration 1, and so on, at consecutive stream positions with
\* no other draw in between.
C8_DrawOrder ==
    pc \in {"loop", "unwind"} =>
        /\ \A j \in 1..Len(draws) :
              /\ draws[j].kind = C8_Order[((j - 1) % 5) + 1]
              /\ draws[j].iter = (j - 1) \div 5
              /\ j > 1 => draws[j].pos = draws[j - 1].pos + 1
        /\ draws # <<>> => rng.pos = draws[Len(draws)].pos + 1
        /\ pc = "loop" => Len(draws) = 5 * Len(transactions)

C8_Witness ==
    /\ pc = "loop"
    /\ Len(draws) = 10
    /\ Len(transactions) = 2

\* ------------------------------------------------------------------- C9
\* C9 (as claimed): the stream is seeded exactly once in a process, whatever
\* constructions and calls are made.
C9_SeededOnce == nInit >= 1 => rng.seeds = 1

\* C9 (amended): every construction seeds the stream once, putting it back
\* at its initial position, and nothing else does: no generate_* call seeds
\* the stream or moves it back.
C9_SeededPerConstruction ==
    [][/\ rng'.seeds = nInit'
       /\ nInit' = nInit + 1 => (rng'.seeds = rng.seeds + 1 /\ rng'.pos = 0)
       /\ nInit' = nInit => (rng'.seeds = rng.seeds /\ rng'.pos >= rng.pos)]_vars

\* A second construction has reseeded the stream, and generate_customers has
\* drawn from it since.
C9_Witness ==
    /\ nInit = 2
    /\ rng.seeds = 2
    /\ rng.pos > 0
    /\ call = "customers"

\* ------------------------------------------------------------------ C10
\* C10: inside generate_all_data both tables are complete before
\* generate_transactions starts, and no step of generate_transactions
\* changes the customer table or the product table.
C10_TablesReadOnly ==
    [][/\ (call' \in AllCalls /\ pc' \in {"txn_entry", "loop"}) =>
             /\ {"customers", "products"} \subseteq bound'
             /\ Len(customers') = gen'.n_customers
             /\ Len(products') = gen'.n_products
       /\ pc \in {"txn_entry", "loop"} =>
             /\ customers' = customers
             /\ products' = products
             /\ {"customers", "products"} \subseteq bound']_vars

C10_Witness ==
    /\ pc = "idle"
    /\ call \in AllCalls
    /\ outcome = "returned"
    /\ Len(customers) >= 1
    /\ Len(products) >= 1
    /\ Len(transactions) >= 1

====
